---- MODULE Spec2Model ----
(***************************************************************************)
(* A model of nekosapi. PaginatedResult (src/nekosapi/pagination.py): the  *)
(* sparse index cache `_loaded_items`, the sticky `_count`, the iteration  *)
(* cursor `_iter_current`, the page planner `_get_best_page` and the four  *)
(* public operations __getitem__ (index and slice), __iter__/__next__ and  *)
(* count, run against a server that holds `server_count` items. The rate   *)
(* gate (src/nekosapi/ratelimiting.py) with the calls that pass it, and    *)
(* the lazily loaded Resource (src/nekosapi/resources.py).                 *)
(*                                                                         *)
(* Python's Optional[int] is modelled as a sequence of length <= 1:        *)
(* None is <<>> and the integer n is <<n>>.                                *)
(***************************************************************************)
EXTENDS Integers, Sequences, FiniteSets, TLC

\* Bounds of the model.
MaxPageSize == 2    \* page_size is drawn from 1..MaxPageSize
MaxIndex == 3       \* indices asked for are drawn from 0..MaxIndex
MaxClock == 7       \* the clock runs from 0 to MaxClock ticks
MaxChunks == 2      \* a slice call dispatches 1..MaxChunks requests

\* time.sleep(0.5 - elapsed): the gate's interval, 0.5 s, in ticks of 100 ms.
GateInterval == 5

VARIABLES
    _loaded_items,  \* dict index -> hydrated item (a function on the cached indices)
    _count,         \* None, or the server-reported total
    _iter_current,  \* the iteration cursor
    page_size,      \* the page size given to the constructor
    server_count,   \* the number of items the remote collection holds
    last,           \* history: the last public operation, its requests and its result
    run,            \* history: the next() calls made on the collection since it was built
    last_request,   \* ratelimiting.last_request: None, or the recorded time
    now,            \* the clock, in ticks of 100 ms
    pc,             \* where the running call stands between its gate pass and its request
    sent,           \* history: the requests dispatched by the process
    _id,            \* Resource._id: None while the attribute is not set
    _loaded,        \* Resource._loaded
    _data,          \* Resource._data: None while the attribute is not set
    _loaded_relationships,  \* Resource._loaded_relationships: the names resolved
    rlast,          \* history: the last access to the resource
    frame,          \* the locals and the position of one call of _get_best_page
    threads,        \* the locals and the position of each thread's call of result[key]
    params          \* PaginatedResult.params: None while empty, or the page it holds

\* The fields of one PaginatedResult, with the server it talks to.
coll_vars == <<_loaded_items, _count, _iter_current, page_size, server_count, last>>

\* The rate gate and the process that passes it.
gate_vars == <<last_request, now, pc, sent>>

\* The fields of one Resource.
res_vars == <<_id, _loaded, _data, _loaded_relationships, rlast>>

\* The calls made in threads, and the dict they share.
thread_vars == <<threads, params>>

vars == <<coll_vars, run, gate_vars, res_vars, frame, thread_vars>>

None == <<>>
Some(n) == <<n>>

Max(S) == CHOOSE x \in S : \A y \in S : y <= x
Min(S) == CHOOSE x \in S : \A y \in S : x <= y

EmptyItems == [k \in {} |-> None]

Keys(items) == DOMAIN items

----------------------------------------------------------------------------
(* The remote service and the hydrator.                                    *)

\* The raw item the server holds at position k.
ServerItem(k) == [type |-> "image", id |-> k]

\* TYPE_TO_CLASS[item["type"]](data={"data": item, ...})
Hydrate(item) == [resource |-> item.type, id |-> item.id]

\* r.json()["data"] for a request page[offset]=offset, page[limit]=limit.
ResponseData(offset, limit, n) ==
    LET hi  == IF offset + limit < n THEN offset + limit ELSE n
        len == IF offset >= 0 /\ hi > offset THEN hi - offset ELSE 0
    IN  [k \in 1..len |-> ServerItem(offset + k - 1)]

\* What a request can come back as: a good response, a non-success status
\* (raise_for_status raises), or a body without meta.pagination.
Modes == {"ok", "http", "nometa"}

\* The ways a call can go: only a call that dispatches a request can fail.
ModesOf(fetches) == IF fetches THEN Modes ELSE {"ok"}

\* The params of one dispatched request.
Request(limit, offset) == [limit |-> limit, offset |-> offset]

----------------------------------------------------------------------------
(* PaginatedResult._get_best_page                                          *)

RECURSIVE ShrinkLoop(_, _, _, _)
ShrinkLoop(prev_item, next_item, item_index, P) ==
    IF next_item - prev_item > P
    THEN LET n1 == IF next_item # item_index THEN next_item - 1 ELSE next_item
             p1 == IF n1 - prev_item > P /\ prev_item # item_index
                   THEN prev_item + 1 ELSE prev_item
         IN  ShrinkLoop(p1, n1, item_index, P)
    ELSE <<prev_item, next_item>>

\* A variant of the grow loop that runs while the gap is <= page_size.
RECURSIVE GrowLoopOvershoot(_, _, _)
GrowLoopOvershoot(prev_item, next_item, P) ==
    IF next_item - prev_item <= P
    THEN LET n1 == next_item + 1
             p1 == IF n1 - prev_item <= P /\ prev_item > 0
                   THEN prev_item - 1 ELSE prev_item
         IN  GrowLoopOvershoot(p1, n1, P)
    ELSE <<prev_item, next_item>>

RECURSIVE GrowLoop(_, _, _)
GrowLoop(prev_item, next_item, P) ==
    IF next_item - prev_item < P
    THEN LET n1 == next_item + 1
             p1 == IF n1 - prev_item < P /\ prev_item > 0
                   THEN prev_item - 1 ELSE prev_item
         IN  GrowLoop(p1, n1, P)
    ELSE <<prev_item, next_item>>

\* A variant of the upward slide that leaves the window where it is.
SlideUpNever(prev_item, next_item, keys) == <<prev_item, next_item>>

RECURSIVE SlideUp(_, _, _)
SlideUp(prev_item, next_item, keys) ==
    IF prev_item \in keys
    THEN SlideUp(prev_item + 1, next_item + 1, keys)
    ELSE <<prev_item, next_item>>

RECURSIVE SlideDown(_, _, _)
SlideDown(prev_item, next_item, keys) ==
    IF next_item \in keys
    THEN SlideDown(IF prev_item # 0 THEN prev_item - 1 ELSE prev_item,
                   next_item - 1, keys)
    ELSE <<prev_item, next_item>>

\* The index of `item` in the sorted list of the cached keys plus `item`.
ItemIndex(keys, item) == Cardinality({k \in keys : k < item})

PrevOf(keys, item) ==
    LET item_index == ItemIndex(keys, item)
    IN  IF item_index # 0 THEN Max({k \in keys : k < item}) ELSE item_index

NextOf(keys, item) ==
    LET item_index == ItemIndex(keys, item)
    IN  IF item_index # Cardinality(keys) THEN Min({k \in keys : k > item})
        ELSE item_index

\* The planner, called on a miss (item \notin keys): <<limit, offset>>.
_get_best_page(keys, item, P) ==
    LET item_index == ItemIndex(keys, item)
        p0    == PrevOf(keys, item)
        n0    == NextOf(keys, item)
        sized == IF n0 - p0 > P THEN ShrinkLoop(p0, n0, item_index, P)
                 ELSE IF n0 - p0 < P THEN GrowLoop(p0, n0, P)
                 ELSE <<p0, n0>>
        up    == SlideUp(sized[1], sized[2], keys)
        down  == SlideDown(up[1], up[2], keys)
    IN  <<down[2] - down[1], down[1]>>

\* A call of the planner: it raises AlreadyLoadedException when the item is
\* among the cached keys, and plans a window otherwise.
best_page_call(keys, item, P) ==
    IF item \in keys
    THEN [error |-> "AlreadyLoadedException", page |-> <<>>]
    ELSE [error |-> "ok", page |-> _get_best_page(keys, item, P)]

----------------------------------------------------------------------------
(* The cache.                                                              *)

\* A variant of the store loop that rebuilds the dict from the response alone.
StoreItemsReplacing(items, offset, data) ==
    LET new == {offset + n : n \in 0..(Len(data) - 1)}
    IN  [k \in new |-> Hydrate(data[k - offset + 1])]

\* for item in r.json()["data"]: self._loaded_items[offset + n] = ...; n += 1
StoreItems(items, offset, data) ==
    LET new == {offset + n : n \in 0..(Len(data) - 1)}
    IN  [k \in Keys(items) \cup new |->
            IF k \in new THEN Hydrate(data[k - offset + 1]) ELSE items[k]]

\* The indices the store loop assigns for the response to page[offset]=offset,
\* page[limit]=limit: one new object per item of the response, whatever the
\* dict held there.
StoredIndexes(offset, limit, n) ==
    {offset + k - 1 : k \in 1..Len(ResponseData(offset, limit, n))}

\* A variant of the page request that stores the body before checking the status.
FetchPageStoreFirst(items, cnt, limit, offset, mode, n) ==
    LET data == ResponseData(offset, limit, n)
    IN  [items |-> StoreItems(items, offset, data),
         count |-> IF mode = "ok" THEN Some(n) ELSE cnt,
         error |-> IF mode = "http" THEN "HTTPError"
                   ELSE IF mode = "nometa" THEN "KeyError:meta" ELSE "ok"]

\* One page request and what it leaves behind: the gate is passed, the request
\* is dispatched, and then, by mode, raise_for_status raises, or the items are
\* stored and the count is read from the meta (raising if it is missing).
FetchPage(items, cnt, limit, offset, mode, n) ==
    LET data == ResponseData(offset, limit, n)
    IN  [items |-> IF mode = "http" THEN items ELSE StoreItems(items, offset, data),
         count |-> IF mode = "ok" THEN Some(n) ELSE cnt,
         error |-> IF mode = "http" THEN "HTTPError"
                   ELSE IF mode = "nometa" THEN "KeyError:meta" ELSE "ok"]

----------------------------------------------------------------------------
(* The public operations, each as the result of one call: the cache and    *)
(* the count it leaves, the requests it dispatched (in order), the number  *)
(* of passes through prevent_ratelimit, how it ended and what it returned. *)

\* A variant of the integer branch that plans without looking in the cache.
getitem_index_planning_first(items, cnt, key, mode, n, P) ==
    LET plan   == best_page_call(Keys(items), key, P)
        limit  == plan.page[1]
        offset == plan.page[2]
        f      == FetchPage(items, cnt, limit, offset, mode, n)
        found  == f.error = "ok" /\ key \in Keys(f.items)
    IN  IF plan.error # "ok"
        THEN [items |-> items, count |-> cnt, reqs |-> <<>>, gates |-> 0,
              outcome |-> plan.error, ret |-> <<>>]
        ELSE [items |-> f.items, count |-> f.count,
              reqs |-> <<Request(limit, offset)>>, gates |-> 1,
              outcome |-> IF f.error # "ok" THEN f.error
                          ELSE IF found THEN "ok" ELSE "KeyError:index",
              ret |-> IF found THEN <<f.items[key]>> ELSE <<>>]

\* PaginatedResult.__getitem__, the integer branch.
getitem_index(items, cnt, key, mode, n, P) ==
    IF key \in Keys(items)
    THEN [items |-> items, count |-> cnt, reqs |-> <<>>, gates |-> 0,
          outcome |-> "ok", ret |-> <<items[key]>>]
    ELSE LET plan   == best_page_call(Keys(items), key, P)
             limit  == plan.page[1]
             offset == plan.page[2]
             f      == FetchPage(items, cnt, limit, offset, mode, n)
             found  == f.error = "ok" /\ key \in Keys(f.items)
         IN  IF plan.error # "ok"
             THEN [items |-> items, count |-> cnt, reqs |-> <<>>, gates |-> 0,
                   outcome |-> plan.error, ret |-> <<>>]
             ELSE [items |-> f.items, count |-> f.count,
                   reqs |-> <<Request(limit, offset)>>, gates |-> 1,
                   outcome |-> IF f.error # "ok" THEN f.error
                               ELSE IF found THEN "ok" ELSE "KeyError:index",
                   ret |-> IF found THEN <<f.items[key]>> ELSE <<>>]

\* range(key.start, key.stop + 1, key.step if key.step else 1)
SlicedIndexes(start, stop, step) ==
    LET s   == IF step = None THEN 1 ELSE IF step[1] = 0 THEN 1 ELSE step[1]
        len == IF stop + 1 > start THEN ((stop - start) \div s) + 1 ELSE 0
    IN  [k \in 1..len |-> start + (k - 1) * s]

\* [key.start + offset for offset in range(0, len + len % page_size, page_size)]
SliceOffsets(start, len, P) ==
    LET bound == len + (len % P)
        cnt   == (bound + P - 1) \div P
    IN  [k \in 1..cnt |-> start + (k - 1) * P]

\* for offset in offsets: one request of page_size items each; the first
\* request that fails ends the loop with what the earlier ones stored.
RECURSIVE SliceLoop(_, _, _, _, _, _, _, _)
SliceLoop(items, cnt, offsets, k, modes, n, P, reqs) ==
    IF k > Len(offsets)
    THEN [items |-> items, count |-> cnt, reqs |-> reqs, error |-> "ok"]
    ELSE LET f  == FetchPage(items, cnt, P, offsets[k], modes[k], n)
             rs == Append(reqs, Request(P, offsets[k]))
         IN  IF f.error # "ok"
             THEN [items |-> f.items, count |-> f.count, reqs |-> rs,
                   error |-> f.error]
             ELSE SliceLoop(f.items, f.count, offsets, k + 1, modes, n, P, rs)

\* PaginatedResult.__getitem__, the slice branch. modes[k] is what the k-th
\* request comes back as.
getitem_slice(items, cnt, start, stop, step, modes, n, P) ==
    LET sliced_indexes == SlicedIndexes(start, stop, step)
        needs_request  == \E k \in 1..Len(sliced_indexes) :
                              sliced_indexes[k] \notin Keys(items)
        offsets == SliceOffsets(start, Len(sliced_indexes), P)
        l == IF needs_request
             THEN SliceLoop(items, cnt, offsets, 1, modes, n, P, <<>>)
             ELSE [items |-> items, count |-> cnt, reqs |-> <<>>, error |-> "ok"]
        found == l.error = "ok" /\ \A k \in 1..Len(sliced_indexes) :
                                       sliced_indexes[k] \in Keys(l.items)
    IN  [items |-> l.items, count |-> l.count, reqs |-> l.reqs,
         gates |-> Len(l.reqs),
         outcome |-> IF l.error # "ok" THEN l.error
                     ELSE IF found THEN "ok" ELSE "KeyError:index",
         ret |-> IF found
                 THEN [k \in 1..Len(sliced_indexes) |-> l.items[sliced_indexes[k]]]
                 ELSE <<>>]

\* PaginatedResult.__getitem__ with a slice that has no stop, result[start:]:
\* key.stop is None, and key.stop + 1 raises TypeError on the first line of
\* the slice branch.
getitem_slice_open(items, cnt, start, step) ==
    [items |-> items, count |-> cnt, reqs |-> <<>>, gates |-> 0,
     outcome |-> "TypeError", ret |-> <<>>]

\* A variant of __next__ that moves the cursor up however the call ends.
next_item_always_advancing(items, cnt, current, mode, n, P) ==
    LET plan   == best_page_call(Keys(items), current, P)
        f      == FetchPage(items, cnt, plan.page[1], plan.page[2], mode, n)
        found  == f.error = "ok" /\ current \in Keys(f.items)
    IN  IF current \in Keys(items)
        THEN [items |-> items, count |-> cnt, reqs |-> <<>>, gates |-> 0,
              outcome |-> "ok", ret |-> <<items[current]>>, advance |-> 1]
        ELSE [items |-> f.items, count |-> f.count,
              reqs |-> <<Request(plan.page[1], plan.page[2])>>, gates |-> 1,
              outcome |-> IF f.error # "ok" THEN f.error
                          ELSE IF found THEN "ok" ELSE "KeyError:index",
              ret |-> IF found THEN <<f.items[current]>> ELSE <<>>,
              advance |-> 1]

\* A variant of __next__ that returns the item and leaves the cursor where it is.
next_item_no_advance(items, cnt, current, mode, n, P) ==
    LET plan   == best_page_call(Keys(items), current, P)
        f      == FetchPage(items, cnt, plan.page[1], plan.page[2], mode, n)
        found  == f.error = "ok" /\ current \in Keys(f.items)
    IN  IF current \in Keys(items)
        THEN [items |-> items, count |-> cnt, reqs |-> <<>>, gates |-> 0,
              outcome |-> "ok", ret |-> <<items[current]>>, advance |-> 0]
        ELSE [items |-> f.items, count |-> f.count,
              reqs |-> <<Request(plan.page[1], plan.page[2])>>, gates |-> 1,
              outcome |-> IF f.error # "ok" THEN f.error
                          ELSE IF found THEN "ok" ELSE "KeyError:index",
              ret |-> IF found THEN <<f.items[current]>> ELSE <<>>,
              advance |-> 0]

\* PaginatedResult.__next__ : the item at the cursor; `advance` says whether
\* self._iter_current += 1 was reached.
next_item(items, cnt, current, mode, n, P) ==
    IF current \in Keys(items)
    THEN [items |-> items, count |-> cnt, reqs |-> <<>>, gates |-> 0,
          outcome |-> "ok", ret |-> <<items[current]>>, advance |-> 1]
    ELSE LET plan   == best_page_call(Keys(items), current, P)
             limit  == plan.page[1]
             offset == plan.page[2]
             f      == FetchPage(items, cnt, limit, offset, mode, n)
             found  == f.error = "ok" /\ current \in Keys(f.items)
         IN  IF plan.error # "ok"
             THEN [items |-> items, count |-> cnt, reqs |-> <<>>, gates |-> 0,
                   outcome |-> plan.error, ret |-> <<>>, advance |-> 0]
             ELSE [items |-> f.items, count |-> f.count,
                   reqs |-> <<Request(limit, offset)>>, gates |-> 1,
                   outcome |-> IF f.error # "ok" THEN f.error
                               ELSE IF found THEN "ok" ELSE "KeyError:index",
                   ret |-> IF found THEN <<f.items[current]>> ELSE <<>>,
                   advance |-> IF found THEN 1 ELSE 0]

\* A variant of count that does not look at the stored _count.
count_refetch(items, cnt, mode, n, P) ==
    LET f == FetchPage(items, cnt, P, 0, mode, n)
    IN  [items |-> f.items, count |-> f.count,
         reqs |-> <<Request(P, 0)>>, gates |-> 1,
         outcome |-> f.error,
         ret |-> IF f.error = "ok" THEN f.count ELSE <<>>]

\* PaginatedResult.count. With _count unknown and a non-empty cache,
\* list(keys).sort()[0] subscripts None and raises TypeError before any request.
count(items, cnt, mode, n, P) ==
    IF cnt # None
    THEN [items |-> items, count |-> cnt, reqs |-> <<>>, gates |-> 0,
          outcome |-> "ok", ret |-> cnt]
    ELSE IF Keys(items) # {}
    THEN [items |-> items, count |-> cnt, reqs |-> <<>>, gates |-> 0,
          outcome |-> "TypeError", ret |-> <<>>]
    ELSE LET offset == 0
             f      == FetchPage(items, cnt, P, offset, mode, n)
         IN  [items |-> f.items, count |-> f.count,
              reqs |-> <<Request(P, offset)>>, gates |-> 1,
              outcome |-> f.error,
              ret |-> IF f.error = "ok" THEN f.count ELSE <<>>]

----------------------------------------------------------------------------
(* The state machine.                                                      *)

\* The history record of one call: what it was, the state it started from
\* and what it did.
Record(op, arg, r, prior) ==
    [op |-> op, arg |-> arg,
     pre_items |-> _loaded_items, pre_count |-> _count, pre_iter |-> _iter_current,
     reqs |-> r.reqs, gates |-> r.gates, outcome |-> r.outcome, ret |-> r.ret,
     prior |-> prior]

Idle == [reqs |-> <<>>, gates |-> 0, outcome |-> "ok", ret |-> <<>>]

\* The steps a slice is given: none (None, which counts as 1) or 2.
Steps == {None, Some(2)}

\* The sizes of the remote collection.
ServerCounts == {MaxIndex - 1, MaxIndex}

\* The indices result[key] is asked for: one negative, the rest from 0 up.
AskedIndexes == (-1)..MaxIndex

\* The run of next() calls on a collection: how many were made, the items
\* they returned and the requests they dispatched; live from construction
\* until something else happens; assigned when page_size was set after it.
FreshRun == [live |-> TRUE, assigned |-> FALSE, n |-> 0, rets |-> <<>>, reqs |-> <<>>]

\* No run is followed.
NoRun == [live |-> FALSE, assigned |-> FALSE, n |-> 0, rets |-> <<>>, reqs |-> <<>>]

\* PaginatedResult.__init__
Init ==
    /\ _loaded_items = EmptyItems
    /\ _count = None
    /\ _iter_current = 0
    /\ page_size \in 1..MaxPageSize
    /\ server_count \in ServerCounts
    /\ last = [op |-> "init", arg |-> <<>>,
               pre_items |-> EmptyItems, pre_count |-> None, pre_iter |-> 0,
               reqs |-> <<>>, gates |-> 0, outcome |-> "ok", ret |-> <<>>,
               prior |-> <<>>]

\* result[key] with an integer key. `prior` keeps the outcome of the call
\* before it when that was a get of the same key.
Get(key, mode) ==
    \E r \in {getitem_index(_loaded_items, _count, key, mode, server_count,
                             page_size)} :
        /\ _loaded_items' = r.items
        /\ _count' = r.count
        /\ last' = Record("get", <<key>>, r,
                          IF last.op = "get" /\ last.arg = <<key>>
                          THEN <<[reqs |-> last.reqs, outcome |-> last.outcome,
                                  ret |-> last.ret]>>
                          ELSE <<>>)
        /\ UNCHANGED <<_iter_current, page_size, server_count>>

\* What the requests of one slice can come back as: all good, or the
\* failAt-th of them failing as `kind`.
SliceModes(nreq) ==
    {[k \in 1..nreq |-> "ok"]} \cup
    {[k \in 1..nreq |-> IF k = failAt THEN kind ELSE "ok"] :
        failAt \in 1..nreq, kind \in {"http", "nometa"}}

\* The number of requests result[start:stop:step] dispatches when none fails.
SliceRequests(items, start, stop, step, P) ==
    LET sliced_indexes == SlicedIndexes(start, stop, step)
    IN  IF \A k \in 1..Len(sliced_indexes) : sliced_indexes[k] \in Keys(items)
        THEN 0
        ELSE Len(SliceOffsets(start, Len(sliced_indexes), P))

\* result[start:stop:step]
Slice(start, stop, step) ==
    \E modes \in SliceModes(SliceRequests(_loaded_items, start, stop, step, page_size)) :
        \E r \in {getitem_slice(_loaded_items, _count, start, stop, step, modes,
                               server_count, page_size)} :
            /\ _loaded_items' = r.items
            /\ _count' = r.count
            /\ last' = Record("slice", <<start, stop, step>>, r, <<>>)
            /\ UNCHANGED <<_iter_current, page_size, server_count>>

\* result[start:] and result[start::step]
SliceOpen(start, step) ==
    \E r \in {getitem_slice_open(_loaded_items, _count, start, step)} :
        /\ _loaded_items' = r.items
        /\ _count' = r.count
        /\ last' = Record("slice_open", <<start, step>>, r, <<>>)
        /\ UNCHANGED <<_iter_current, page_size, server_count>>

\* iter(result)
Iter ==
    /\ _iter_current' = 0
    /\ last' = Record("iter", <<>>, Idle, <<>>)
    /\ UNCHANGED <<_loaded_items, _count, page_size, server_count>>

\* next(result)
NextItem(mode) ==
    /\ _iter_current <= MaxIndex
    /\ \E r \in {next_item(_loaded_items, _count, _iter_current, mode,
                            server_count, page_size)} :
        /\ _loaded_items' = r.items
        /\ _count' = r.count
        /\ _iter_current' = _iter_current + r.advance
        /\ last' = Record("next", <<>>, r, <<>>)
        /\ UNCHANGED <<page_size, server_count>>

\* result.count
Count(mode) ==
    \E r \in {count(_loaded_items, _count, mode, server_count, page_size)} :
        /\ _loaded_items' = r.items
        /\ _count' = r.count
        /\ last' = Record("count", <<>>, r, <<>>)
        /\ UNCHANGED <<_iter_current, page_size, server_count>>

----------------------------------------------------------------------------
(* The rate gate (src/nekosapi/ratelimiting.py) and the process that       *)
(* passes it: two PaginatedResult objects and one Resource, whose calls    *)
(* run one after the other, each request after its pass through           *)
(* prevent_ratelimit.                                                      *)

\* sleep(), entered at time t with the module's last_request being lr:
\* the body (sleep for what is left of the interval, then record the time)
\* runs only under `if last_request:`. time.sleep raises ValueError when it
\* is handed a negative number, before the time is recorded.
sleep(lr, t) ==
    IF lr # None
    THEN LET wait == GateInterval - (t - lr[1])
         IN  IF wait < 0
             THEN [last_request |-> lr, now |-> t, outcome |-> "ValueError"]
             ELSE [last_request |-> Some(t + wait), now |-> t + wait,
                   outcome |-> "ok"]
    ELSE [last_request |-> lr, now |-> t, outcome |-> "ok"]

\* The objects of the process and the calls of each that dispatch requests.
Collections == {"images", "users"}
PageOps == {"getitem", "slice", "next", "count"}
ResourceOps == {"_load", "relationship"}

FetchSites ==
    (Collections \X PageOps) \cup ({"resource"} \X ResourceOps)

\* The requests one call dispatches when none fails: a slice one per chunk.
RequestsOf(op) == IF op = "slice" THEN 1..MaxChunks ELSE {1}

\* A variant in which the relationship fetch goes straight to its request.
FirstStepUngatedRelationship(op) == IF op = "relationship" THEN "request" ELSE "gate"

\* Where a call stands when it is about to fetch: at prevent_ratelimit, which
\* every request site has right before its request.
FirstStep(op) == "gate"

NoCall == [at |-> "idle", obj |-> "", op |-> "", left |-> 0]

NothingSent ==
    [at |-> None, gap |-> None, passes |-> 0, passer |-> <<>>,
     own_pass |-> FALSE, by |-> <<>>]

\* The module as imported: last_request = None, and no call running.
GateInit ==
    /\ last_request = None
    /\ now = 0
    /\ pc = NoCall
    /\ sent = NothingSent

\* Time passes, whatever the process is doing.
Tick ==
    /\ now < MaxClock
    /\ now' = now + 1
    /\ UNCHANGED <<last_request, pc, sent>>

\* An object starts a call that needs n requests.
Call(obj, op, n) ==
    /\ pc.at = "idle"
    /\ pc' = [at |-> FirstStep(op), obj |-> obj, op |-> op, left |-> n]
    /\ UNCHANGED <<last_request, now, sent>>

\* The running call passes the gate: prevent_ratelimit() runs sleep().
GatePass ==
    /\ pc.at = "gate"
    /\ \E g \in {sleep(last_request, now)} :
          /\ last_request' = g.last_request
          /\ now' = g.now
          /\ pc' = IF g.outcome = "ok" THEN [pc EXCEPT !.at = "request"] ELSE NoCall
          /\ sent' = [sent EXCEPT !.passes = 1, !.passer = <<pc.obj, pc.op>>]

\* The running call dispatches its request: requests.get(...). A slice whose
\* request came back good goes on to its next chunk; every other call ends.
Dispatch(ok) ==
    /\ pc.at = "request"
    /\ sent' = [at |-> Some(now),
                gap |-> IF sent.at = None THEN None ELSE Some(now - sent.at[1]),
                passes |-> 0,
                passer |-> <<>>,
                own_pass |-> sent.passes > 0 /\ sent.passer = <<pc.obj, pc.op>>,
                by |-> IF sent.by = <<>> THEN <<pc.obj>>
                       ELSE <<sent.by[Len(sent.by)], pc.obj>>]
    /\ pc' = IF ok /\ pc.left > 1
             THEN [pc EXCEPT !.at = FirstStep(pc.op), !.left = pc.left - 1]
             ELSE NoCall
    /\ UNCHANGED <<last_request, now>>

----------------------------------------------------------------------------
(* Resource (src/nekosapi/resources.py): one object with its fields _id,   *)
(* _loaded, _data and _loaded_relationships; an attribute that was never   *)
(* assigned (_id, _data) is None here. Each accessor is the result of one  *)
(* call: the fields it leaves, the requests it dispatched, its passes      *)
(* through prevent_ratelimit, how it ended and what it returned.           *)

\* The ids resources are built with.
Ids == {1, 2}

\* The relationships an Image declares.
Names == {"uploader", "categories"}

\* What a payload says of one relationship: no entry; an entry whose data is
\* None or []; an entry that names a resource the payload does not include;
\* an entry resolved by the payload's `included` side list.
Shapes == {"absent", "null", "ref", "included", "missing"}

\* A resource document as the server sends it.
Payload(id, rel) ==
    [id |-> id, attributes |-> [title |-> id], relationships |-> rel]

Payloads == {Payload(id, rel) : id \in Ids, rel \in [Names -> Shapes]}

\* What the request of _load can come back as.
LoadModes == {"ok", "http"}

\* What the request of a relationship can come back as: a document, a
\* failure status, or a document whose data is None.
RelationshipModes == {"ok", "http", "null"}

\* Resource._load_from_resource
_load_from_resource(data) ==
    [id |-> Some(data.id), data |-> Some(data), loaded |-> TRUE]

\* Resource.__init__(**kwargs): id and data are None when the keyword is absent.
Resource(id, data) ==
    IF data # None
    THEN LET l == _load_from_resource(data[1])
         IN  [id |-> l.id, loaded |-> l.loaded, data |-> l.data, rels |-> {}]
    ELSE [id |-> id, loaded |-> FALSE, data |-> None, rels |-> {}]

\* A call that raised before it changed or fetched anything.
Raised(id, loaded, data, rels, error) ==
    [id |-> id, loaded |-> loaded, data |-> data, rels |-> rels,
     reqs |-> 0, gates |-> 0, outcome |-> error, ret |-> <<>>]

\* Resource.id (and pk, which returns it)
id_property(id, loaded, data, rels) ==
    IF id = None
    THEN Raised(id, loaded, data, rels, "UnspecifiedResourceError")
    ELSE [id |-> id, loaded |-> loaded, data |-> data, rels |-> rels,
          reqs |-> 0, gates |-> 0, outcome |-> "ok", ret |-> id]

\* Resource._load: the gate is passed, the request is dispatched, and a good
\* response is loaded into the object.
_load(id, loaded, data, rels, mode, payload) ==
    IF mode = "http"
    THEN [id |-> id, loaded |-> loaded, data |-> data, rels |-> rels,
          reqs |-> 1, gates |-> 1, outcome |-> "HTTPError", ret |-> <<>>]
    ELSE LET l == _load_from_resource(payload)
         IN  [id |-> l.id, loaded |-> l.loaded, data |-> l.data, rels |-> rels,
              reqs |-> 1, gates |-> 1, outcome |-> "ok", ret |-> <<>>]

\* A variant of the attribute wrapper that loads whatever _loaded says.
resource_property_reloading(id, loaded, data, rels, mode, payload) ==
    IF id = None
    THEN Raised(id, loaded, data, rels, "UnspecifiedResourceError")
    ELSE LET l == _load(id, loaded, data, rels, mode, payload)
         IN  IF l.outcome # "ok" THEN l
             ELSE [l EXCEPT !.ret = <<l.data[1].attributes.title>>]

\* A variant of the attribute wrapper that does not check the id first.
resource_property_unchecked(id, loaded, data, rels, mode, payload) ==
    IF ~loaded
    THEN LET l == _load(id, loaded, data, rels, mode, payload)
         IN  IF l.outcome # "ok" THEN l
             ELSE [l EXCEPT !.ret = <<l.data[1].attributes.title>>]
    ELSE [id |-> id, loaded |-> loaded, data |-> data, rels |-> rels,
          reqs |-> 0, gates |-> 0, outcome |-> "ok",
          ret |-> <<data[1].attributes.title>>]

\* @resource_property on an attribute (Image.title): the id is checked, the
\* resource is loaded if it is not, and the attribute is read from _data.
resource_property(id, loaded, data, rels, mode, payload) ==
    IF id_property(id, loaded, data, rels).outcome # "ok"
    THEN Raised(id, loaded, data, rels, "UnspecifiedResourceError")
    ELSE IF ~loaded
    THEN LET l == _load(id, loaded, data, rels, mode, payload)
         IN  IF l.outcome # "ok" THEN l
             ELSE [l EXCEPT !.ret = <<l.data[1].attributes.title>>]
    ELSE [id |-> id, loaded |-> loaded, data |-> data, rels |-> rels,
          reqs |-> 0, gates |-> 0, outcome |-> "ok",
          ret |-> <<data[1].attributes.title>>]

\* @resource_relationship on a relationship (Image.uploader), in the order of
\* the wrapper: the id check; the cached relationship; obj._data read (an
\* AttributeError on an object that was never loaded); the entry missing;
\* the entry resolved by the included side list, whether the related item
\* is in the list ("included") or not ("missing"); the empty entry, stored
\* through the undefined name `self` (a NameError); else the gate, the
\* request, and its result stored (again through `self` when it is None).
resource_relationship(id, loaded, data, rels, name, mode) ==
    IF id_property(id, loaded, data, rels).outcome # "ok"
    THEN Raised(id, loaded, data, rels, "UnspecifiedResourceError")
    ELSE IF name \in rels
    THEN [id |-> id, loaded |-> loaded, data |-> data, rels |-> rels,
          reqs |-> 0, gates |-> 0, outcome |-> "ok", ret |-> <<name>>]
    ELSE IF data = None
    THEN Raised(id, loaded, data, rels, "AttributeError")
    ELSE LET shape == data[1].relationships[name]
         IN  IF shape = "absent"
             THEN Raised(id, loaded, data, rels, "Exception")
             ELSE IF shape \in {"included", "missing"}
             THEN [id |-> id, loaded |-> loaded, data |-> data,
                   rels |-> rels \cup {name},
                   reqs |-> 0, gates |-> 0, outcome |-> "ok", ret |-> <<name>>]
             ELSE IF shape = "null"
             THEN Raised(id, loaded, data, rels, "NameError")
             ELSE [id |-> id, loaded |-> loaded, data |-> data,
                   rels |-> IF mode = "ok" THEN rels \cup {name} ELSE rels,
                   reqs |-> 1, gates |-> 1,
                   outcome |-> IF mode = "http" THEN "HTTPError"
                               ELSE IF mode = "null" THEN "NameError" ELSE "ok",
                   ret |-> IF mode = "ok" THEN <<name>> ELSE <<>>]

\* The history record of one access to the resource.
ResourceRecord(op, arg, r) ==
    [op |-> op, arg |-> arg,
     pre_id |-> _id, pre_loaded |-> _loaded, pre_data |-> _data,
     pre_rels |-> _loaded_relationships,
     reqs |-> r.reqs, gates |-> r.gates, outcome |-> r.outcome, ret |-> r.ret]

\* The fields take what the call left.
Becomes(r) ==
    /\ _id' = r.id
    /\ _loaded' = r.loaded
    /\ _data' = r.data
    /\ _loaded_relationships' = r.rels

\* The object as kwargs built it.
Built(id, data) ==
    \E r \in {Resource(id, data)} :
        /\ _id = r.id
        /\ _loaded = r.loaded
        /\ _data = r.data
        /\ _loaded_relationships = r.rels
        /\ rlast = [op |-> "init", arg |-> <<>>,
                    pre_id |-> None, pre_loaded |-> FALSE, pre_data |-> None,
                    pre_rels |-> {},
                    reqs |-> 0, gates |-> 0, outcome |-> "ok", ret |-> <<>>]

\* No resource in play: Resource() with no keyword.
ResourceAtRest == Built(None, None)

\* resource.id, resource.pk
ReadId(op) ==
    \E r \in {id_property(_id, _loaded, _data, _loaded_relationships)} :
        /\ Becomes(r)
        /\ rlast' = ResourceRecord(op, <<>>, r)

\* resource.title
ReadAttribute(mode, payload) ==
    \E r \in {resource_property(_id, _loaded, _data, _loaded_relationships,
                                mode, payload)} :
        /\ Becomes(r)
        /\ rlast' = ResourceRecord("attribute", <<>>, r)

\* resource.uploader, resource.categories
ReadRelationship(name, mode) ==
    \E r \in {resource_relationship(_id, _loaded, _data, _loaded_relationships,
                                    name, mode)} :
        /\ Becomes(r)
        /\ rlast' = ResourceRecord("relationship", <<name>>, r)

\* What the request of resource.title can come back as: the document of the
\* resource asked for, with whatever relationships, or a failure.
LoadResponses ==
    IF _id # None /\ ~_loaded
    THEN {<<mode, Payload(_id[1], rel)>> : mode \in LoadModes, rel \in [Names -> Shapes]}
    ELSE {<<"ok", Payload(1, [n \in Names |-> "absent"])>>}

\* Whether resource.<name> gets as far as its request.
RelationshipFetches(name) ==
    /\ _id # None
    /\ name \notin _loaded_relationships
    /\ _data # None
    /\ _data[1].relationships[name] = "ref"

----------------------------------------------------------------------------
(* Paging through a collection with next(), as tests/test_image.py does:   *)
(* imgs.page_size = 25, then next(imgs) fifty times.                       *)

\* result.page_size = P. The run is the one the claim speaks of only while
\* the page size is settled before the first next().
SetPageSize(P) ==
    /\ page_size' = P
    /\ last' = Record("page_size", <<P>>, Idle, <<>>)
    /\ run' = IF run.live /\ run.n = 0 THEN [run EXCEPT !.assigned = TRUE]
              ELSE NoRun
    /\ UNCHANGED <<_loaded_items, _count, _iter_current, server_count>>

\* next(result), with the run kept: it stays live while every call is made
\* below the server's count and every request comes back good.
RunNext(mode) ==
    /\ NextItem(mode)
    /\ run' = IF run.live /\ mode = "ok" /\ _iter_current < server_count
              THEN [run EXCEPT !.n = run.n + 1,
                               !.rets = run.rets \o last'.ret,
                               !.reqs = run.reqs \o last'.reqs]
              ELSE NoRun

\* iter(result) ends the run.
RunIter ==
    /\ Iter
    /\ run' = NoRun

----------------------------------------------------------------------------
(* One call of _get_best_page, statement by statement: `frame` holds the   *)
(* cached keys it reads, its argument, the page size, its locals and the   *)
(* loop it stands at; `ran` collects the loops that went round.            *)

\* The sets of cached keys the planner is called with.
KeySets == SUBSET (0..MaxIndex)

\* No call of the planner running.
NoFrame ==
    [keys |-> {}, item |-> 0, P |-> 1, item_index |-> 0,
     prev_item |-> 0, next_item |-> 0, at |-> "idle", ran |-> {}]

\* The call as it is entered, on an item that is not cached.
Entered(keys, item, P) ==
    [keys |-> keys, item |-> item, P |-> P, item_index |-> 0,
     prev_item |-> 0, next_item |-> 0, at |-> "locate", ran |-> {}]

\* A variant of the shrink iteration that moves neither end.
shrink_step_stuck(prev_item, next_idx, item_index, P) == <<prev_item, next_idx>>

\* One iteration of the shrink loop.
shrink_step(prev_item, next_idx, item_index, P) ==
    LET n1 == IF next_idx # item_index THEN next_idx - 1 ELSE next_idx
        p1 == IF n1 - prev_item > P /\ prev_item # item_index
              THEN prev_item + 1 ELSE prev_item
    IN  <<p1, n1>>

\* A variant of the grow iteration that lets the lower end go below 0.
grow_step_unclamped(prev_item, next_idx, P) ==
    LET n1 == next_idx + 1
        p1 == IF n1 - prev_item < P THEN prev_item - 1 ELSE prev_item
    IN  <<p1, n1>>

\* One iteration of the grow loop.
grow_step(prev_item, next_idx, P) ==
    LET n1 == next_idx + 1
        p1 == IF n1 - prev_item < P /\ prev_item > 0
              THEN prev_item - 1 ELSE prev_item
    IN  <<p1, n1>>

\* A variant of the first slide iteration that moves the window up by two.
slide_up_step_by_two(prev_item, next_idx) == <<prev_item + 2, next_idx + 2>>

\* One iteration of the first slide loop.
slide_up_step(prev_item, next_idx) == <<prev_item + 1, next_idx + 1>>

\* One iteration of the second slide loop.
slide_down_step(prev_item, next_idx) ==
    <<IF prev_item # 0 THEN prev_item - 1 ELSE prev_item, next_idx - 1>>

\* loaded_items, item_index, prev_item, next_item; then the branch on the gap.
Locate ==
    /\ frame.at = "locate"
    /\ LET p0 == PrevOf(frame.keys, frame.item)
           n0 == NextOf(frame.keys, frame.item)
       IN  frame' = [frame EXCEPT
                !.item_index = ItemIndex(frame.keys, frame.item),
                !.prev_item = p0,
                !.next_item = n0,
                !.at = IF n0 - p0 > frame.P THEN "shrink"
                       ELSE IF n0 - p0 < frame.P THEN "grow" ELSE "slide_up"]

\* while next_item - prev_item > self.page_size
Shrink ==
    /\ frame.at = "shrink"
    /\ IF frame.next_item - frame.prev_item > frame.P
       THEN \E w \in {shrink_step(frame.prev_item, frame.next_item,
                                  frame.item_index, frame.P)} :
               frame' = [frame EXCEPT !.prev_item = w[1], !.next_item = w[2],
                                      !.ran = frame.ran \cup {"shrink"}]
       ELSE frame' = [frame EXCEPT !.at = "slide_up"]

\* while next_item - prev_item < self.page_size
Grow ==
    /\ frame.at = "grow"
    /\ IF frame.next_item - frame.prev_item < frame.P
       THEN \E w \in {grow_step(frame.prev_item, frame.next_item, frame.P)} :
               frame' = [frame EXCEPT !.prev_item = w[1], !.next_item = w[2],
                                      !.ran = frame.ran \cup {"grow"}]
       ELSE frame' = [frame EXCEPT !.at = "slide_up"]

\* while self._loaded_items.get(prev_item, None) is not None
SlideUpLoop ==
    /\ frame.at = "slide_up"
    /\ IF frame.prev_item \in frame.keys
       THEN \E w \in {slide_up_step(frame.prev_item, frame.next_item)} :
               frame' = [frame EXCEPT !.prev_item = w[1], !.next_item = w[2],
                                      !.ran = frame.ran \cup {"slide_up"}]
       ELSE frame' = [frame EXCEPT !.at = "slide_down"]

\* while self._loaded_items.get(next_item, None) is not None; then the return.
SlideDownLoop ==
    /\ frame.at = "slide_down"
    /\ IF frame.next_item \in frame.keys
       THEN \E w \in {slide_down_step(frame.prev_item, frame.next_item)} :
               frame' = [frame EXCEPT !.prev_item = w[1], !.next_item = w[2],
                                      !.ran = frame.ran \cup {"slide_down"}]
       ELSE frame' = [frame EXCEPT !.at = "return"]

\* return next_item - prev_item, prev_item
Returned == frame.at = "return"
ReturnedLimit == frame.next_item - frame.prev_item
ReturnedOffset == frame.prev_item

----------------------------------------------------------------------------
(* Two calls of result[key] in two threads on one PaginatedResult, each    *)
(* followed statement group by statement group. The object has no lock, so *)
(* the calls may take turns at every boundary; the cache, the count and    *)
(* the params dict are the object's, the rest is local to each call.       *)

Threads == {1, 2}

\* A call that has not been made.
NoCallYet ==
    [key |-> 0, at |-> "idle", miss |-> FALSE, planned_on |-> {},
     limit |-> 0, offset |-> 0, reqs |-> <<>>, data |-> <<>>, mode |-> "ok",
     outcome |-> "ok", ret |-> <<>>]

\* result[key] as it is entered.
Called(key) == [NoCallYet EXCEPT !.key = key, !.at = "check"]

\* A variant of the request that looks in the cache again first and sends
\* nothing when the item has arrived meanwhile.
request_step_rechecking(items, key, p, mode, n) ==
    IF key \in Keys(items)
    THEN [reqs |-> <<>>, data |-> <<>>, at |-> "return", outcome |-> "ok"]
    ELSE [reqs |-> <<p>>,
          data |-> ResponseData(p.offset, p.limit, n),
          at |-> IF mode = "http" THEN "done" ELSE "store",
          outcome |-> IF mode = "http" THEN "HTTPError" ELSE "ok"]

\* prevent_ratelimit(); r = requests.get(self.url, params=params, ...);
\* r.raise_for_status(): the request carries what the params dict holds now.
request_step(items, key, p, mode, n) ==
    [reqs |-> <<p>>,
     data |-> ResponseData(p.offset, p.limit, n),
     at |-> IF mode = "http" THEN "done" ELSE "store",
     outcome |-> IF mode = "http" THEN "HTTPError" ELSE "ok"]

\* Only the call of thread t moves, and the object's fields it writes.
ThreadFrame ==
    UNCHANGED <<_iter_current, page_size, server_count, last>>

\* item = self._loaded_items.get(key, None); if item is None
CheckCache(t) ==
    /\ threads[t].at = "check"
    /\ threads' = [threads EXCEPT
            ![t].miss = threads[t].key \notin Keys(_loaded_items),
            ![t].at = IF threads[t].key \in Keys(_loaded_items)
                      THEN "return" ELSE "plan"]
    /\ UNCHANGED <<_loaded_items, _count, params>>
    /\ ThreadFrame

\* limit, offset = self._get_best_page(key); params = self.params;
\* params.update({...}): the planner raises when the item has been stored
\* since the check; the dict updated is the one every call shares.
PlanWindow(t) ==
    /\ threads[t].at = "plan"
    /\ \E plan \in {best_page_call(Keys(_loaded_items), threads[t].key, page_size)} :
          IF plan.error # "ok"
          THEN /\ threads' = [threads EXCEPT ![t].at = "done",
                                             ![t].outcome = plan.error]
               /\ UNCHANGED params
          ELSE /\ threads' = [threads EXCEPT
                      ![t].at = "request",
                      ![t].planned_on = Keys(_loaded_items),
                      ![t].limit = plan.page[1],
                      ![t].offset = plan.page[2]]
               /\ params' = Some(Request(plan.page[1], plan.page[2]))
    /\ UNCHANGED <<_loaded_items, _count>>
    /\ ThreadFrame

\* The gate, the request and the status check.
SendRequest(t, mode) ==
    /\ threads[t].at = "request"
    /\ \E r \in {request_step(_loaded_items, threads[t].key, params[1],
                              mode, server_count)} :
          threads' = [threads EXCEPT ![t].reqs = r.reqs,
                                     ![t].data = r.data,
                                     ![t].mode = mode,
                                     ![t].at = r.at,
                                     ![t].outcome = r.outcome]
    /\ UNCHANGED <<_loaded_items, _count, params>>
    /\ ThreadFrame

\* The store loop, at the call's own offset, and the count read from the meta.
StoreResponse(t) ==
    /\ threads[t].at = "store"
    /\ _loaded_items' = StoreItems(_loaded_items, threads[t].offset, threads[t].data)
    /\ IF threads[t].mode = "nometa"
       THEN /\ UNCHANGED _count
            /\ threads' = [threads EXCEPT ![t].at = "done",
                                          ![t].outcome = "KeyError:meta"]
       ELSE /\ _count' = Some(server_count)
            /\ threads' = [threads EXCEPT ![t].at = "return"]
    /\ UNCHANGED params
    /\ ThreadFrame

\* return self._loaded_items[key]
ReturnItem(t) ==
    /\ threads[t].at = "return"
    /\ threads' = [threads EXCEPT
            ![t].at = "done",
            ![t].outcome = IF threads[t].key \in Keys(_loaded_items)
                           THEN "ok" ELSE "KeyError:index",
            ![t].ret = IF threads[t].key \in Keys(_loaded_items)
                       THEN <<_loaded_items[threads[t].key]>> ELSE <<>>]
    /\ UNCHANGED <<_loaded_items, _count, params>>
    /\ ThreadFrame

\* No thread is calling; the params dict as the constructor leaves it.
ThreadsAtRest ==
    /\ threads = [t \in Threads |-> NoCallYet]
    /\ params = None

----------------------------------------------------------------------------
(* The specifications.                                                     *)

\* A collection nobody calls: the constructor's defaults.
CollectionAtRest ==
    /\ Init
    /\ page_size = MaxPageSize
    /\ server_count = MaxIndex

\* One collection, called in every way; the rest of the process is still.
InitCollection ==
    /\ frame = NoFrame
    /\ ThreadsAtRest
    /\ Init
    /\ run = NoRun
    /\ GateInit
    /\ ResourceAtRest

\* Nothing but the collection moves.
CollectionOnly == UNCHANGED <<run, gate_vars, res_vars, frame, thread_vars>>

\* One call on the collection.
Next ==
    \/ \E key \in AskedIndexes :
          \E mode \in ModesOf(key \notin Keys(_loaded_items)) :
              Get(key, mode) /\ CollectionOnly
    \/ \E start \in 0..MaxIndex, step \in Steps :
          \E stop \in (start - 1)..MaxIndex :
              Slice(start, stop, step) /\ CollectionOnly
    \/ \E start \in 0..MaxIndex, step \in Steps :
          SliceOpen(start, step) /\ CollectionOnly
    \/ Iter /\ CollectionOnly
    \/ \E mode \in ModesOf(_iter_current \notin Keys(_loaded_items)) :
          NextItem(mode) /\ CollectionOnly
    \/ \E mode \in ModesOf(_count = None /\ Keys(_loaded_items) = {}) :
          Count(mode) /\ CollectionOnly

Spec == InitCollection /\ [][Next]_vars

InitIteration ==
    /\ frame = NoFrame
    /\ ThreadsAtRest
    /\ Init
    /\ run = FreshRun
    /\ GateInit
    /\ ResourceAtRest

\* Nothing but the collection and its run moves.
IterationOnly == UNCHANGED <<gate_vars, res_vars, frame, thread_vars>>

NextIteration ==
    \/ \E P \in 1..MaxPageSize : SetPageSize(P) /\ IterationOnly
    \/ \E mode \in ModesOf(_iter_current \notin Keys(_loaded_items)) :
          RunNext(mode) /\ IterationOnly
    \/ RunIter /\ IterationOnly

SpecIteration == InitIteration /\ [][NextIteration]_vars

InitGate ==
    /\ frame = NoFrame
    /\ ThreadsAtRest
    /\ CollectionAtRest
    /\ run = NoRun
    /\ GateInit
    /\ ResourceAtRest

\* Nothing but the gate and the running call moves.
GateOnly == UNCHANGED <<coll_vars, run, res_vars, frame, thread_vars>>

NextGate ==
    \/ Tick /\ GateOnly
    \/ \E site \in FetchSites : \E n \in RequestsOf(site[2]) :
          Call(site[1], site[2], n) /\ GateOnly
    \/ GatePass /\ GateOnly
    \/ \E ok \in BOOLEAN : Dispatch(ok) /\ GateOnly

SpecGate == InitGate /\ [][NextGate]_vars

InitResource ==
    /\ frame = NoFrame
    /\ ThreadsAtRest
    /\ \E id \in {None} \cup {Some(i) : i \in Ids},
          data \in {None} \cup {Some(p) : p \in Payloads} : Built(id, data)
    /\ CollectionAtRest
    /\ run = NoRun
    /\ GateInit

\* Nothing but the resource moves.
ResourceOnly == UNCHANGED <<coll_vars, run, gate_vars, frame, thread_vars>>

NextResource ==
    \/ \E op \in {"id", "pk"} : ReadId(op) /\ ResourceOnly
    \/ \E resp \in LoadResponses : ReadAttribute(resp[1], resp[2]) /\ ResourceOnly
    \/ \E name \in Names :
          \E mode \in IF RelationshipFetches(name) THEN RelationshipModes
                      ELSE {"ok"} : ReadRelationship(name, mode) /\ ResourceOnly

SpecResource == InitResource /\ [][NextResource]_vars

InitPlanner ==
    /\ \E keys \in KeySets, P \in 1..MaxPageSize :
          \E item \in (0..MaxIndex) \ keys : frame = Entered(keys, item, P)
    /\ CollectionAtRest
    /\ run = NoRun
    /\ GateInit
    /\ ResourceAtRest
    /\ ThreadsAtRest

\* Nothing but the planner's call moves.
PlannerOnly == UNCHANGED <<coll_vars, run, gate_vars, res_vars, thread_vars>>

NextPlanner ==
    \/ Locate /\ PlannerOnly
    \/ Shrink /\ PlannerOnly
    \/ Grow /\ PlannerOnly
    \/ SlideUpLoop /\ PlannerOnly
    \/ SlideDownLoop /\ PlannerOnly

SpecPlanner == InitPlanner /\ [][NextPlanner]_vars

\* The call keeps running until it returns: nothing else holds the thread.
SpecPlannerFair == SpecPlanner /\ WF_vars(NextPlanner)

\* A new collection, and result[key] called in each of two threads.
InitThreads ==
    /\ \E k \in [Threads -> 0..MaxIndex] :
          threads = [t \in Threads |-> Called(k[t])]
    /\ params = None
    /\ frame = NoFrame
    /\ Init
    /\ run = NoRun
    /\ GateInit
    /\ ResourceAtRest

\* Nothing but the two calls and the object they share moves.
ThreadsOnly == UNCHANGED <<run, gate_vars, res_vars, frame>>

\* One statement group of one of the calls.
NextThreads ==
    \/ \E t \in Threads : CheckCache(t) /\ ThreadsOnly
    \/ \E t \in Threads : PlanWindow(t) /\ ThreadsOnly
    \/ \E t \in Threads, mode \in Modes : SendRequest(t, mode) /\ ThreadsOnly
    \/ \E t \in Threads : StoreResponse(t) /\ ThreadsOnly
    \/ \E t \in Threads : ReturnItem(t) /\ ThreadsOnly

SpecThreads == InitThreads /\ [][NextThreads]_vars

----------------------------------------------------------------------------
(* Properties.                                                             *)

\* The indices result[start:stop:step] asks for: start, start+step, ...
\* strictly below stop.
RequestedIndices(arg) ==
    LET s == IF arg[3] = None THEN 1 ELSE arg[3][1]
    IN  {arg[1] + k * s : k \in 0..MaxIndex} \cap (arg[1]..(arg[2] - 1))

\* The last call changed neither the cache, nor the count, nor the cursor.
Untouched ==
    /\ _loaded_items = last.pre_items
    /\ _count = last.pre_count
    /\ _iter_current = last.pre_iter

\* The last call was result[key] with key not cached when it started.
GetMiss == last.op = "get" /\ last.arg[1] \notin Keys(last.pre_items)

\* The request(s) of the last call came back good (status and meta).
FetcherSucceeded == last.outcome \in {"ok", "KeyError:index"}

\* C1: a full cache hit performs no I/O: result[i] with i cached, or a slice
\* whose requested indices are all cached, dispatches no request, does not
\* pass the rate gate and leaves the cache, the count and the cursor as they were.
C1_FullHitNoIO ==
    (\/ last.op = "get" /\ last.arg[1] \in Keys(last.pre_items)
     \/ /\ last.op = "slice"
        /\ RequestedIndices(last.arg) # {}
        /\ RequestedIndices(last.arg) \subseteq Keys(last.pre_items))
    => (last.reqs = <<>> /\ last.gates = 0 /\ Untouched)

\* C2: result[i] on a miss, with a good response and i below the server's
\* count: exactly one request, for the planned window; the k-th returned item
\* is stored at offset+k; _count is the response's count; the call returns the
\* item the server holds at position i.
C2_GetMissFetchesWindowAndReturns ==
    (GetMiss /\ FetcherSucceeded /\ last.arg[1] < server_count)
    => LET key  == last.arg[1]
           page == _get_best_page(Keys(last.pre_items), key, page_size)
       IN  /\ last.reqs = <<Request(page[1], page[2])>>
           /\ \A k \in 0..(page[1] - 1) :
                 page[2] + k < server_count
                 => /\ page[2] + k \in Keys(_loaded_items)
                    /\ _loaded_items[page[2] + k] = Hydrate(ServerItem(page[2] + k))
           /\ _count = Some(server_count)
           /\ last.outcome = "ok"
           /\ last.ret = <<Hydrate(ServerItem(key))>>

\* C3: two result[i] calls in a row (good responses, i below the server's
\* count) return the same value and dispatch at most one request together.
C3_TwoGetsOneFetch ==
    (/\ last.op = "get" /\ last.prior # <<>>
     /\ last.arg[1] < server_count
     /\ FetcherSucceeded /\ last.prior[1].outcome \in {"ok", "KeyError:index"})
    => /\ last.ret # <<>>
       /\ last.ret = last.prior[1].ret
       /\ Len(last.prior[1].reqs) + Len(last.reqs) <= 1

\* C4: the window the planner returns for an uncached index i contains i
\* (offset <= i < offset + limit) and has limit <= page_size.
C4_PlannerContainsIndex ==
    GetMiss
    => LET w == last.reqs[1]
       IN  /\ w.offset <= last.arg[1]
           /\ last.arg[1] < w.offset + w.limit
           /\ w.limit <= page_size

\* C5: neither boundary of the planned window, offset or offset + limit, is
\* an index that was already cached.
C5_PlannerBoundariesUncached ==
    GetMiss
    => LET w == last.reqs[1]
       IN  /\ w.offset \notin Keys(last.pre_items)
           /\ (w.offset + w.limit) \notin Keys(last.pre_items)

\* C6: every request dispatched, by whichever operation, carries
\* page[limit] <= page_size.
C6_LimitAtMostPageSize ==
    \A k \in 1..Len(last.reqs) : last.reqs[k].limit <= page_size

\* C6 witness: requests of full page size from a get, and a planned window
\* narrower than the page size.
C6_Witness ==
    /\ GetMiss
    /\ last.pre_items # EmptyItems
    /\ last.reqs[1].limit < page_size

\* C7: the set of cached indices never loses an element, whatever the
\* operation and however it ends.
C7_CacheMonotonic ==
    [][Keys(_loaded_items) \subseteq Keys(_loaded_items')]_vars

\* C7 witness: a call that failed on a non-empty cache after adding to it.
C7_Witness ==
    /\ last.outcome # "ok"
    /\ last.pre_items # EmptyItems
    /\ Keys(last.pre_items) # Keys(_loaded_items)
    /\ Keys(last.pre_items) \subseteq Keys(_loaded_items)

\* C8: when the request of result[i] comes back with a failure status, the
\* call raises after that one request (no retry) and the cache and the count
\* are what they were before the call.
C8_GetHttpFailureLeavesCache ==
    (last.op = "get" /\ last.outcome = "HTTPError")
    => /\ Len(last.reqs) = 1
       /\ last.ret = <<>>
       /\ _loaded_items = last.pre_items
       /\ _count = last.pre_count

\* C8 witness: a get that failed upstream on a non-empty cache.
C8_Witness ==
    /\ last.op = "get" /\ last.outcome = "HTTPError"
    /\ last.pre_items # EmptyItems
    /\ last.arg[1] < server_count

\* C9: no partial success: whenever a call fails, the cache and the count
\* are what they were before the call.
C9_NoPartialSuccess ==
    last.outcome # "ok"
    => (_loaded_items = last.pre_items /\ _count = last.pre_count)

\* C10: count on a fresh collection dispatches exactly one request, for
\* offset 0 and limit page_size, stores the items that come back and returns
\* the response's total; count with _count known dispatches nothing and
\* returns the stored value.
C10_CountFetchesOnceThenNever ==
    /\ (last.op = "count" /\ last.pre_items = EmptyItems /\ last.pre_count = None)
       => /\ last.reqs = <<Request(page_size, 0)>>
          /\ last.gates = 1
          /\ last.outcome # "HTTPError"
             => /\ Keys(_loaded_items) = {k \in 0..(page_size - 1) : k < server_count}
                /\ \A k \in Keys(_loaded_items) : _loaded_items[k].id = k
          /\ last.outcome = "ok"
             => (last.ret = Some(server_count) /\ _count = Some(server_count))
    /\ (last.op = "count" /\ last.pre_count # None)
       => /\ last.reqs = <<>>
          /\ last.gates = 0
          /\ last.outcome = "ok"
          /\ last.ret = last.pre_count
          /\ Untouched

\* C10 witness: a first count that stored one page of a longer collection.
C10_Witness ==
    /\ last.op = "count" /\ last.pre_items = EmptyItems /\ last.pre_count = None
    /\ last.outcome = "ok"
    /\ page_size < server_count
    /\ Keys(_loaded_items) = 0..(page_size - 1)

\* C11: any two requests dispatched one after the other are at least the
\* gate's interval (500 ms) apart on the clock.
C11_FetchesSpacedByInterval ==
    sent.gap # None => sent.gap[1] >= GateInterval

\* C12: every request dispatched, by whichever object and call, comes after
\* a pass of its own call through the gate, made since the request before it.
C12_EveryFetchPassesTheGate ==
    sent.at # None => sent.own_pass

\* C12 witness: two requests in a row dispatched by different objects.
C12_Witness ==
    /\ Len(sent.by) = 2
    /\ sent.by[1] # sent.by[2]
    /\ sent.by[2] = "resource"
    /\ sent.own_pass

\* The items the server holds at start, start+step, ... strictly below stop,
\* in ascending order.
RequestedItems(arg) ==
    LET s == IF arg[3] = None THEN 1 ELSE arg[3][1]
        n == Cardinality(RequestedIndices(arg))
    IN  [k \in 1..n |-> Hydrate(ServerItem(arg[1] + (k - 1) * s))]

\* C13: result[start:stop:step] with 0 <= start < stop, stop within the
\* server's count and good responses: afterwards every requested index is
\* cached and the call returns exactly the requested items, in ascending order.
C13_SliceReturnsRequested ==
    (/\ last.op = "slice"
     /\ last.arg[1] < last.arg[2]
     /\ last.arg[2] <= server_count
     /\ FetcherSucceeded)
    => /\ RequestedIndices(last.arg) \subseteq Keys(_loaded_items)
       /\ last.outcome = "ok"
       /\ last.ret = RequestedItems(last.arg)

\* C14: a step-1 slice over at most page_size consecutive indices that is not
\* fully cached dispatches exactly one request, page[offset]=start and
\* page[limit]=page_size.
C14_SmallSliceOneRequest ==
    (/\ last.op = "slice"
     /\ last.arg[3] = None
     /\ last.arg[1] < last.arg[2]
     /\ last.arg[2] - last.arg[1] <= page_size
     /\ ~(RequestedIndices(last.arg) \subseteq Keys(last.pre_items)))
    => last.reqs = <<Request(page_size, last.arg[1])>>

\* C15: the cursor starts at 0; a next() that succeeds returns the item at
\* the cursor and moves the cursor up by exactly 1; next() on a cached
\* cursor dispatches nothing; iter() sets the cursor to 0 without a request
\* and leaves the cache and the count alone; next() never ends the iteration.
C15_CursorContract ==
    /\ last.op = "init" => _iter_current = 0
    /\ (last.op = "next" /\ last.outcome = "ok")
       => /\ last.ret = <<Hydrate(ServerItem(last.pre_iter))>>
          /\ _iter_current = last.pre_iter + 1
    /\ (last.op = "next" /\ last.pre_iter \in Keys(last.pre_items))
       => (last.reqs = <<>> /\ last.gates = 0 /\ last.outcome = "ok")
    /\ last.op = "next"
       => last.outcome \in {"ok", "HTTPError", "KeyError:meta", "KeyError:index"}
    /\ last.op = "iter"
       => /\ _iter_current = 0
          /\ last.reqs = <<>> /\ last.gates = 0
          /\ _loaded_items = last.pre_items
          /\ _count = last.pre_count

\* C15 witness: after a reset, a next() further up the cached prefix.
C15_Witness ==
    /\ last.op = "next" /\ last.outcome = "ok"
    /\ last.pre_iter >= 1
    /\ last.pre_iter \in Keys(last.pre_items)
    /\ last.reqs = <<>>
    /\ (last.pre_iter + 1) \in Keys(_loaded_items)

\* C16: on a fresh collection, with whatever page size P (set by the
\* constructor or assigned afterwards), N next() calls below the server's
\* count return the items 0..N-1 in order and dispatch exactly ceil(N/P)
\* requests, the k-th for the window offset k*P, limit P.
C16_SequentialPaging ==
    run.live
    => /\ run.rets = [k \in 1..run.n |-> Hydrate(ServerItem(k - 1))]
       /\ run.reqs = [k \in 1..((run.n + page_size - 1) \div page_size) |->
                         Request(page_size, (k - 1) * page_size)]

\* C16 witness: a run over more than one page, with page_size assigned
\* after construction.
C16_Witness ==
    /\ run.live /\ run.assigned
    /\ page_size > 1
    /\ run.n > page_size
    /\ Len(run.reqs) = 2

\* C17: result[i] with i negative and a slice without stop are refused with
\* an error before any request, and leave the cache, the count and the
\* cursor as they were.
C17_MalformedRejectedBeforeFetch ==
    (\/ last.op = "get" /\ last.arg[1] < 0
     \/ last.op = "slice_open")
    => /\ last.outcome # "ok"
       /\ last.reqs = <<>> /\ last.gates = 0
       /\ Untouched

\* C18: the planner raises AlreadyLoadedException exactly on a cached
\* index, and no public operation ever ends with it: the operations that
\* plan (result[i], next()) do so only for an index that is not cached.
C18_AlreadyLoadedNeverEscapes ==
    /\ \A item \in AskedIndexes :
          (best_page_call(Keys(_loaded_items), item, page_size).error
               = "AlreadyLoadedException")
          <=> item \in Keys(_loaded_items)
    /\ last.outcome # "AlreadyLoadedException"
    /\ (last.op \in {"get", "next"} /\ last.reqs # <<>>)
       => (IF last.op = "get" THEN last.arg[1] ELSE last.pre_iter)
              \notin Keys(last.pre_items)

\* C18 witness: result[i] for a cached i, on which the planner would raise,
\* returned the cached item.
C18_Witness ==
    /\ last.op = "get" /\ last.outcome = "ok"
    /\ last.arg[1] \in Keys(last.pre_items)
    /\ best_page_call(Keys(last.pre_items), last.arg[1], page_size).error
           = "AlreadyLoadedException"

\* C19: a resource built from a payload starts loaded and one built from an
\* id alone starts unloaded; an attribute read on an unloaded resource makes
\* exactly one gate pass and one request and, when the request succeeds,
\* leaves the resource loaded; an attribute, id or pk read on a loaded
\* resource dispatches nothing; a loaded resource stays loaded.
C19_LazyLoading ==
    /\ rlast.op = "init" => (_loaded <=> _data # None)
    /\ (rlast.op = "attribute" /\ rlast.pre_id # None /\ ~rlast.pre_loaded)
       => /\ rlast.reqs = 1 /\ rlast.gates = 1
          /\ rlast.outcome = "ok" => (_loaded /\ _data # None)
    /\ (rlast.op \in {"attribute", "id", "pk"} /\ rlast.pre_loaded)
       => (rlast.reqs = 0 /\ rlast.gates = 0 /\ rlast.outcome = "ok")
    /\ rlast.pre_loaded => _loaded

\* C19 witness: an attribute read loaded a resource built from an id alone.
C19_Witness ==
    /\ rlast.op = "attribute"
    /\ rlast.pre_id # None /\ ~rlast.pre_loaded /\ rlast.pre_data = None
    /\ rlast.outcome = "ok"
    /\ _loaded

\* C20: on a resource with neither an id nor loaded data, reading id or pk,
\* an attribute or a relationship raises UnspecifiedResourceError, dispatches
\* no request and leaves _loaded and the relationship cache as they were.
C20_UnspecifiedResource ==
    (rlast.op # "init" /\ rlast.pre_id = None /\ rlast.pre_data = None)
    => /\ rlast.outcome = "UnspecifiedResourceError"
       /\ rlast.reqs = 0 /\ rlast.gates = 0
       /\ _loaded = rlast.pre_loaded
       /\ _loaded_relationships = rlast.pre_rels

\* C20 witness: an attribute read on a resource built with no keyword.
C20_Witness ==
    /\ rlast.op = "attribute"
    /\ rlast.pre_id = None /\ rlast.pre_data = None
    /\ rlast.outcome = "UnspecifiedResourceError"

\* The indices that were cached when the last call began and that its store
\* loops assigned again: every request of the call but one that came back
\* with a failure status stores its response.
Reassigned ==
    LET stored == IF last.outcome = "HTTPError" THEN Len(last.reqs) - 1
                  ELSE Len(last.reqs)
    IN  {i \in Keys(last.pre_items) :
            \E k \in 1..stored :
                i \in StoredIndexes(last.reqs[k].offset, last.reqs[k].limit,
                                    server_count)}

\* C27: once an index is cached its entry is never replaced: no later get,
\* slice, next or count assigns an index that was cached when the call began.
C27_CachedEntriesNeverReassigned ==
    Reassigned = {}

\* C28: if any index is cached the count is known; hence a count that
\* fetches starts from an empty cache and asks for offset 0, limit page_size.
C28_CachedImpliesCountKnown ==
    /\ Keys(_loaded_items) # {} => _count # None
    /\ (last.op = "count" /\ last.reqs # <<>>)
       => /\ last.pre_items = EmptyItems
          /\ last.reqs = <<Request(page_size, 0)>>

\* C30: the cursor changes only through next() and iter(): a next() that
\* fails, result[i], a slice and count leave it where it was.
C30_CursorFrame ==
    /\ (last.op = "next" /\ last.outcome # "ok") => _iter_current = last.pre_iter
    /\ last.op \in {"get", "slice", "slice_open", "count"}
       => _iter_current = last.pre_iter

\* C30 witness: a next() further up the collection that dispatched a request
\* and failed, with the cursor still where it was.
C30_Witness ==
    /\ last.op = "next" /\ last.outcome # "ok"
    /\ last.reqs # <<>>
    /\ last.pre_iter >= 1
    /\ _iter_current = last.pre_iter

\* C23: with nothing cached, the planner's window for an index i >= 0 is
\* [i, i + page_size): offset i, limit page_size.
C23_EmptyCacheWindowStartsAtIndex ==
    (Returned /\ frame.keys = {})
    => (ReturnedOffset = frame.item /\ ReturnedLimit = frame.P)

\* C24: with the cache holding exactly a block 0..m-1 and an index beyond
\* it asked for, the window is slid up past the block: offset m (the first
\* uncached index), limit page_size; with 0..49 cached and page size 50,
\* index 57 gives (offset 50, limit 50).
C24_WindowSlidPastCachedBlock ==
    /\ (/\ Returned
        /\ frame.keys # {}
        /\ frame.keys = 0..(Cardinality(frame.keys) - 1))
       => /\ ReturnedOffset = Cardinality(frame.keys)
          /\ ReturnedLimit = frame.P
    /\ _get_best_page(0..49, 57, 50) = <<50, 50>>

\* C24 witness: a full page cached from 0, and an index past it: the window
\* was grown and then slid up.
C24_Witness ==
    /\ Returned
    /\ frame.P > 1
    /\ frame.keys = 0..(frame.P - 1)
    /\ frame.item > frame.P
    /\ {"grow", "slide_up"} \subseteq frame.ran
    /\ ReturnedOffset = frame.P

\* C25: when the gap between the cached neighbours of i is wider than
\* page_size, the window returned has width exactly page_size and contains i.
C25_ShrinkKeepsIndexInside ==
    (/\ Returned
     /\ NextOf(frame.keys, frame.item) - PrevOf(frame.keys, frame.item) > frame.P)
    => /\ ReturnedLimit = frame.P
       /\ ReturnedOffset <= frame.item
       /\ frame.item < ReturnedOffset + ReturnedLimit

\* C26: the lower end of the planner's window is never negative, at any
\* point of the call, and so the offset it returns is not.
C26_OffsetNeverNegative ==
    /\ frame.prev_item >= 0
    /\ Returned => ReturnedOffset >= 0

\* C26 witness: a window that stayed at 0 while it was slid down.
C26_Witness ==
    /\ Returned
    /\ "slide_down" \in frame.ran
    /\ ReturnedOffset = 0
    /\ ReturnedLimit < frame.P

\* C29: every call of the planner on an uncached index returns: each of its
\* loops finishes.
C29_PlannerTerminates ==
    <>Returned

\* C29 witness: a call that returned after its shrink loop and both slide
\* loops went round.
C29_Witness ==
    /\ Returned
    /\ {"shrink", "slide_up", "slide_down"} \subseteq frame.ran

\* C21: an access to a relationship of a resource that has an id, with the
\* server answering well, succeeds and leaves the relationship stored under
\* its name; it dispatches no request when the relationship was already
\* stored or the related item is in the included side list, and exactly one
\* request when the related item is not in a side list.
C21_RelationshipResolvedOnceAndStored ==
    (/\ rlast.op = "relationship"
     /\ rlast.pre_id # None
     /\ rlast.outcome # "HTTPError")
    => LET name == rlast.arg[1]
       IN  /\ rlast.outcome = "ok"
           /\ rlast.ret = <<name>>
           /\ name \in _loaded_relationships
           /\ name \in rlast.pre_rels => rlast.reqs = 0
           /\ (name \notin rlast.pre_rels /\ rlast.pre_data # None)
              => LET shape == rlast.pre_data[1].relationships[name]
                 IN  /\ shape = "included" => rlast.reqs = 0
                     /\ shape \in {"ref", "missing"} => rlast.reqs = 1

\* C22: nothing makes the steps of result[i] atomic: a call that saw the
\* miss and planned its window dispatches its request whatever another call
\* has stored since, so every such call sends exactly one request, and two
\* calls for the same index that planned on the same cache send the same
\* window.
C22_EveryObservedMissFetches ==
    /\ \A t \in Threads :
          (/\ threads[t].miss
           /\ threads[t].at \in {"store", "return", "done"}
           /\ threads[t].outcome # "AlreadyLoadedException")
          => Len(threads[t].reqs) = 1
    /\ \A t \in Threads, u \in Threads :
          (/\ threads[t].key = threads[u].key
           /\ Len(threads[t].reqs) = 1 /\ Len(threads[u].reqs) = 1
           /\ threads[t].planned_on = threads[u].planned_on)
          => threads[t].reqs = threads[u].reqs

\* C22 witness: both threads asked for the same uncached index, both saw the
\* miss, both sent a request for the same window, and both returned the item.
C22_Witness ==
    /\ threads[1].key = threads[2].key
    /\ threads[1].miss /\ threads[2].miss
    /\ Len(threads[1].reqs) = 1
    /\ threads[1].reqs = threads[2].reqs
    /\ threads[1].at = "done" /\ threads[2].at = "done"
    /\ threads[1].outcome = "ok" /\ threads[2].outcome = "ok"

====
